---- MODULE Spec2Model ----
(***************************************************************************)
(* Half-precision 2D convolution on HVX (conv2d_fp16_hvx.cc): the packed   *)
(* entry point conv2d_packed_fp16, the engine conv_layer_fp16_hvx with its *)
(* tile loop nest and per-tile kernel computeConv, the lane primitives and *)
(* the element-address operation getElementPtr.                            *)
(***************************************************************************)
EXTENDS Integers, Sequences, FiniteSets, TLC

VARIABLES
  pc,                \* control location inside conv2d_packed_fp16 / conv_layer_fp16_hvx
  arg,               \* the invocation's arguments (shapes, pads, strides) and what memory
                     \* outside the buffers holds (junk), never modified
  held,              \* scratch resources currently acquired
  trace,             \* lifecycle events of the entry point, in order
  cr_out,            \* blocked output: position <<y, x, c, h, wo>> -> 64-lane vector
  out_flat,          \* caller-visible flat output: <<y, x, c>> -> value (<<>> until written)
  todo,              \* kernel invocations the loop nest has still to make
  calls,             \* kernel invocations made so far, in order
  cur,               \* the kernel invocation in progress
  fh, fw, c,         \* loop counters of computeConv
  existing_out_vec,  \* running accumulator of computeConv
  narrowings,        \* conversions of the accumulator to half precision in this invocation
  contributions,     \* (tap, channel-pair) contributions added in this invocation
  acts,              \* activation reads made by the latest kernel step
  chunk,             \* chunk-table coordinates used by the latest kernel step
  ptr                \* the latest stand-alone getElementPtr call: its indices, whether it
                     \* failed, the address it returned

vars == <<pc, arg, held, trace, cr_out, out_flat, todo, calls, cur, fh, fw, c,
          existing_out_vec, narrowings, contributions, acts, chunk, ptr>>

(***************************************************************************)
(* Bounds of the model.                                                    *)
(***************************************************************************)
MaxOutHeight == 9
MaxOutWidth == 8
MaxOutUnits == 2
MaxFiltWidth == 5
MaxFiltDepth == 3
MaxFiltHeight == 2
MaxIndex == 1

(***************************************************************************)
(* Arithmetic helpers.                                                     *)
(***************************************************************************)
round_down(v, base) == v - (v % base)

round_up(v, base) == ((v + base - 1) \div base) * base

RECURSIVE Flatten(_)
Flatten(ss) == IF ss = <<>> THEN <<>> ELSE Head(ss) \o Flatten(Tail(ss))

\* the concatenation of F[0], ..., F[n-1]: a counted for loop that emits sequences
ForCat(n, F) == Flatten([i \in 1..n |-> F[i - 1]])

(***************************************************************************)
(* Vector registers: 64 lanes of 16 bits.  A lane holds either a           *)
(* non-negative half-precision number (as its integer value) or a mask     *)
(* (0 or 0xFFFF).                                                          *)
(***************************************************************************)
Lanes == 0..63

AllOnes == 65535

Q6_V_vzero == [i \in Lanes |-> 0]

Q6_Vh_vsplat_R(x) == [i \in Lanes |-> x]

\* even lanes from the even lanes of Vv, odd lanes from the even lanes of Vu
Q6_Vh_vshuffe_VhVh(Vu, Vv) ==
  [i \in Lanes |-> IF i % 2 = 0 THEN Vv[i] ELSE Vu[i - 1]]

Q6_V_vnot_V(v) == [i \in Lanes |-> IF v[i] = AllOnes THEN 0 ELSE AllOnes]

\* bitwise and of a data vector with a mask vector whose lanes are 0 or 0xFFFF
Q6_V_vand_VV(v, mask) == [i \in Lanes |-> IF mask[i] = AllOnes THEN v[i] ELSE 0]

\* bitwise or of two vectors that are zero in complementary lanes
Q6_V_vor_VV(a, b) == [i \in Lanes |-> IF a[i] = 0 THEN b[i] ELSE a[i]]

\* rotate right by `bytes` bytes (2 bytes a lane, amount taken modulo 128)
Q6_V_vror_VR(v, bytes) == [i \in Lanes |-> v[(i + ((bytes % 128) \div 2)) % 64]]

\* half x half -> extended precision: the exact product
Q6_Vqf16_vmpy_VhfVhf(a, b) == [i \in Lanes |-> a[i] * b[i]]

\* extended-precision add: the exact sum
Q6_Vqf16_vadd_Vqf16Vqf16(a, b) == [i \in Lanes |-> a[i] + b[i]]

Q6_Vqf16_vadd_VhfVhf(a, b) == [i \in Lanes |-> a[i] + b[i]]

\* the spacing of half-precision numbers at magnitude v (11 significant bits)
RECURSIVE Quantum(_, _)
Quantum(v, q) == IF v < 2048 * q THEN q ELSE Quantum(v, 2 * q)

\* round to nearest, ties to even; beyond the largest finite half goes to infinity
RoundHf(v) ==
  LET q  == Quantum(v, 1)
      lo == (v \div q) * q
      r  == v - lo
      n  == IF 2 * r < q THEN lo
            ELSE IF 2 * r > q THEN lo + q
            ELSE IF (lo \div q) % 2 = 0 THEN lo ELSE lo + q
  IN  IF n > 65504 THEN 65536 ELSE n

\* narrowing conversion from the extended format to IEEE half precision
Q6_Vhf_equals_Vqf16(v) == [i \in Lanes |-> RoundHf(v[i])]

getOddEvenOnes ==
  LET v0  == Q6_V_vzero
      v1  == Q6_Vh_vsplat_R(AllOnes)
      v1e == Q6_Vh_vshuffe_VhVh(v0, v1)
      v1o == Q6_V_vnot_V(v1e)
  IN  <<v1e, v1o>>

\* base0 and base2 are base_ptr[0] and base_ptr[2]
getInputVector(base0, base2) ==
  LET v1 == Q6_Vh_vsplat_R(base0)
      v2 == Q6_Vh_vsplat_R(base2)
      v1e == getOddEvenOnes[1]
      v1o == getOddEvenOnes[2]
      v_even_vals == Q6_V_vand_VV(v1, v1e)
      v_odd_vals == Q6_V_vand_VV(v2, v1o)
  IN  Q6_V_vor_VV(v_even_vals, v_odd_vals)

computeOuputVectorNoReduce(act_vec, wgt_vec) ==
  LET v_res == Q6_Vqf16_vmpy_VhfVhf(act_vec, wgt_vec)
      v_hf == Q6_Vhf_equals_Vqf16(v_res)
  IN  Q6_V_vand_VV(v_hf, getOddEvenOnes[1])

computeOuputVector(act_vec, wgt_vec) ==
  LET v_res == Q6_Vqf16_vmpy_VhfVhf(act_vec, wgt_vec)
      v_rot == Q6_V_vror_VR(v_res, 2)
      v_reduced == Q6_Vqf16_vadd_Vqf16Vqf16(v_res, v_rot)
      v_hf == Q6_Vhf_equals_Vqf16(v_reduced)
      v1e == getOddEvenOnes[1]
  IN  Q6_V_vand_VV(v_hf, v1e)

(***************************************************************************)
(* Element addressing in a blocked tensor.  An address is the tensor, the  *)
(* block (tile) indices and the offset, in 16-bit elements, from the start *)
(* of that block.                                                          *)
(***************************************************************************)
\* getElementPtr with the channel stride of a layout without the inner width
getElementPtrChannelStride1(block_out_y, block_out_x, block_out_c, yi, xio, ci, xii, tensor) ==
  [tensor |-> tensor, y |-> block_out_y, x |-> block_out_x, c |-> block_out_c,
   off |-> yi * 128 + xio * 64 + ci + xii]

getElementPtr(block_out_y, block_out_x, block_out_c, yi, xio, ci, xii, tensor) ==
  [tensor |-> tensor, y |-> block_out_y, x |-> block_out_x, c |-> block_out_c,
   off |-> yi * 128 + xio * 64 + ci * 2 + xii]

(***************************************************************************)
(* The invocation's arguments and the shapes derived from them.            *)
(***************************************************************************)
filt_height == arg.filt_height
filt_width == arg.filt_width
filt_idepth == arg.filt_idepth
pad_top == arg.pad_top
pad_left == arg.pad_left
stride_h == arg.stride_h
stride_w == arg.stride_w
out_height == arg.out_height
out_width == arg.out_width

\* number of tiles a blocked tensor holds along an axis of n elements
BlockedDim(n, tile) == (n + tile - 1) \div tile

a_height == BlockedDim(arg.act_height, 8)
a_width == BlockedDim(arg.act_width, 4)
a_depth == BlockedDim(arg.filt_idepth, 32)
o_height == BlockedDim(arg.out_height, 8)
o_width == BlockedDim(arg.out_width, 4)
\* cr_filt.shape[3]: the number of output-channel units
out_units == arg.out_units

rd == round_down(filt_width, 4)

wgt_chunk_thin_width == filt_width - rd

(***************************************************************************)
(* The weight chunk table as weight preparation lays it out.               *)
(***************************************************************************)
numHeightGroups(H) == (H + 7) \div 8

numWidthGroups(W) == (W + 3) \div 4

numChannelBlocks(I) == (I + 31) \div 32

calculate_num_weight_chunks(H, W, I, O) ==
  numHeightGroups(H) * numWidthGroups(W) * numChannelBlocks(I) * O

\* width of the first width group: W mod 4, or 4 when W is a multiple of 4
FirstGroupWidth(W) == IF W % 4 = 0 THEN 4 ELSE W % 4

GroupWidth(W, g) == IF g = 0 THEN FirstGroupWidth(W) ELSE 4

GroupStart(W, g) == IF g = 0 THEN 0 ELSE FirstGroupWidth(W) + (g - 1) * 4

\* whether chunk coordinates name an entry of the chunk table
InChunkTable(ch) ==
  /\ 0 <= ch.fch /\ ch.fch < numHeightGroups(filt_height)
  /\ 0 <= ch.fcw /\ ch.fcw < numWidthGroups(filt_width)
  /\ 0 <= ch.cc /\ ch.cc < numChannelBlocks(filt_idepth)
  /\ 0 <= ch.out_c /\ ch.out_c < out_units

\* flat weights: all ones inside the logical HWIO shape, zero padding outside
WgtFlat(y, x, i, o) ==
  IF y < filt_height /\ x < filt_width /\ i < filt_idepth /\ o < out_units * 32
  THEN 1 ELSE 0

\* the 64 weights one vector load yields: lane 2k+j = (output channel k, input
\* channel ci+j) of the tap the chunk coordinates and in-chunk position name;
\* a load outside the table, or outside the chunk's width, yields junk
WeightsVec(ch, junk) ==
  IF InChunkTable(ch) /\ ch.fx < GroupWidth(filt_width, ch.fcw)
               /\ ch.max_x = GroupWidth(filt_width, ch.fcw)
  THEN [i \in Lanes |->
          WgtFlat(ch.fch * 8 + ch.fy, GroupStart(filt_width, ch.fcw) + ch.fx,
                  ch.cc * 32 + ch.ci + (i % 2), ch.out_c * 32 + (i \div 2))]
  ELSE [i \in Lanes |-> junk]

(***************************************************************************)
(* The blocked activation as the layout transform fills it.                *)
(***************************************************************************)
\* flat activation: all ones
ActFlat(y, x, ch) == 1

\* whether a block (tile) index triple lies in the blocked activation's grid
InActGrid(p) ==
  /\ 0 <= p.y /\ p.y < a_height
  /\ 0 <= p.x /\ p.x < a_width
  /\ 0 <= p.c /\ p.c < a_depth

\* the element k places after address p: the tile's content at that offset
\* (zero in the padding of a partial tile), junk outside the tile grid
ActLoad(p, k, junk) ==
  LET off == p.off + k
      yi  == off \div 128
      xio == (off % 128) \div 64
      ci  == (off % 64) \div 2
      xii == off % 2
      y   == p.y * 8 + yi
      x   == p.x * 4 + xio * 2 + xii
      ch  == p.c * 32 + ci
  IN  IF InActGrid(p) /\ 0 <= off /\ off < 1024
      THEN IF y < arg.act_height /\ x < arg.act_width /\ ch < filt_idepth
           THEN ActFlat(y, x, ch) ELSE 0
      ELSE junk

\* positions <<y, x, c, h, wo>> of the blocked output's vectors
OutPositions ==
  (0..(o_height - 1)) \X (0..(o_width - 1)) \X (0..(out_units - 1)) \X (0..7) \X (0..1)

\* flat output element (y, x, ch) read back from the blocked output
deblockize_hwc_16b(blocked) ==
  [p \in (0..(out_height - 1)) \X (0..(out_width - 1)) \X (0..(out_units * 32 - 1)) |->
     blocked[<<p[1] \div 8, p[2] \div 4, p[3] \div 32, p[1] % 8, (p[2] % 4) \div 2>>]
            [(p[3] % 32) * 2 + (p[2] % 2)]]

(***************************************************************************)
(* The tile loop nest of conv_layer_fp16_hvx, as the sequence of kernel    *)
(* invocations it makes.  `path` names the lambda that made the call and   *)
(* `rows` the row loop it was made from.                                   *)
(***************************************************************************)
Call(out_act_y, out_act_x, out_c, h, wo, skip_wi_1, path) ==
  [out_act_y |-> out_act_y, out_act_x |-> out_act_x, out_c |-> out_c, h |-> h,
   wo |-> wo, skip_wi_1 |-> skip_wi_1, path |-> path, rows |-> "tile"]

NoCall == [path |-> "none"]

InRows(tag, s) == [i \in DOMAIN s |-> [s[i] EXCEPT !.rows = tag]]

computeFullWidth(out_y, out_x, out_c, h) ==
  [i \in 1..2 |-> Call(out_y, out_x, out_c, h, i - 1, FALSE, "full")]

\* computePartialWidth without the odd-remainder call
computePartialWidthNoOdd(out_y, out_c, h) ==
  LET out_x == o_width - 1
      n == (out_width % 4) \div 2
  IN  [i \in 1..n |-> Call(out_y, out_x, out_c, h, i - 1, FALSE, "partial")]

\* computePartialWidth pairing the lone last column with a second one
computePartialWidthNoSkip(out_y, out_c, h) ==
  LET out_x == o_width - 1
      n == (out_width % 4) \div 2
  IN  [i \in 1..n |-> Call(out_y, out_x, out_c, h, i - 1, FALSE, "partial")]
      \o (IF out_width % 2 = 1
          THEN <<Call(out_y, out_x, out_c, h, n, FALSE, "partial")>>
          ELSE <<>>)

computePartialWidth(out_y, out_c, h) ==
  LET out_x == o_width - 1
      n == (out_width % 4) \div 2
  IN  [i \in 1..n |-> Call(out_y, out_x, out_c, h, i - 1, FALSE, "partial")]
      \o (IF out_width % 2 = 1
          THEN <<Call(out_y, out_x, out_c, h, n, TRUE, "partial")>>
          ELSE <<>>)

\* the full row tiles of one output-channel unit
FullRowTiles(out_c) ==
  ForCat(out_height \div 8, [out_act_y \in 0..((out_height \div 8) - 1) |->
    ForCat(out_width \div 4, [out_act_x \in 0..((out_width \div 4) - 1) |->
      ForCat(8, [h \in 0..7 |-> computeFullWidth(out_act_y, out_act_x, out_c, h)])])
    \o ForCat(8, [h \in 0..7 |-> computePartialWidth(out_act_y, out_c, h)])])

\* the remainder-row loop running one row too far
RemainderRowsOneMore(out_c) ==
  LET out_y == o_height - 1
  IN  InRows("remainder",
        ForCat((out_height % 8) + 1, [h \in 0..(out_height % 8) |->
          ForCat(out_width \div 4, [out_act_x \in 0..((out_width \div 4) - 1) |->
            computeFullWidth(out_y, out_act_x, out_c, h)])
          \o computePartialWidth(out_y, out_c, h)]))

\* the remainder rows of one output-channel unit, in the bottommost row tile
RemainderRows(out_c) ==
  LET out_y == o_height - 1
  IN  InRows("remainder",
        ForCat(out_height % 8, [h \in 0..((out_height % 8) - 1) |->
          ForCat(out_width \div 4, [out_act_x \in 0..((out_width \div 4) - 1) |->
            computeFullWidth(out_y, out_act_x, out_c, h)])
          \o computePartialWidth(out_y, out_c, h)]))

TileLoopNest ==
  ForCat(out_units, [out_c \in 0..(out_units - 1) |->
    FullRowTiles(out_c) \o RemainderRows(out_c)])

(***************************************************************************)
(* One iteration of computeConv's innermost loop body, for tap (tfh, tfw)  *)
(* and the channel pair starting at tc, of invocation k.                   *)
(***************************************************************************)
Fch(tfh) == tfh \div 8

Fcw(tfw) ==
  IF tfw >= wgt_chunk_thin_width THEN (tfw - wgt_chunk_thin_width) \div 4 + 1 ELSE 0

Fx(tfw) ==
  IF tfw < wgt_chunk_thin_width THEN tfw ELSE (tfw - wgt_chunk_thin_width) % 4

Fy(tfh) == tfh % 8

MaxX(tfw) == IF Fcw(tfw) = 0 THEN wgt_chunk_thin_width ELSE 4

\* the chunk-table coordinates and in-chunk position of the weight load
ChunkOf(k, tfh, tfw, tc) ==
  [fch |-> Fch(tfh), fcw |-> Fcw(tfw), cc |-> tc \div 32, out_c |-> k.out_c,
   max_x |-> MaxX(tfw), fy |-> Fy(tfh), fx |-> Fx(tfw), ci |-> tc % 32,
   fh |-> tfh, fw |-> tfw]

ActWidthAccessIdx(k, wi, tfw) == (k.out_act_x * 4 + k.wo * 2 + wi) * stride_w + tfw

\* the row index with the pad offset applied
ActHeightAccessIdxPadded(k, tfh) == (k.out_act_y * 8 + k.h) * stride_h + tfh - pad_top

ActHeightAccessIdx(k, tfh) == (k.out_act_y * 8 + k.h) * stride_h + tfh

\* the activation read for sub-column wi: where it goes and the address taken
ActAccess(k, wi, tfh, tfw, tc) ==
  LET act_width_access_idx == ActWidthAccessIdx(k, wi, tfw)
      act_height_access_idx == ActHeightAccessIdx(k, tfh)
      true_out_act_x == act_width_access_idx \div 4
      true_wo == (act_width_access_idx % 4) \div 2
      true_wi == act_width_access_idx % 2
      true_out_act_y == act_height_access_idx \div 8
      true_h == act_height_access_idx % 8
      out_act_cc == tc \div 32
      ci == tc % 32
  IN  [buffer |-> "cr_act", wi |-> wi, fh |-> tfh, fw |-> tfw,
       row |-> act_height_access_idx, col |-> act_width_access_idx,
       chan |-> out_act_cc * 32 + ci,
       yi |-> true_h, xio |-> true_wo, ci |-> ci, xii |-> true_wi,
       p |-> getElementPtr(true_out_act_y, true_out_act_x, out_act_cc, true_h,
                           true_wo, ci, true_wi, "cr_act")]

ActVec(a, junk) == getInputVector(ActLoad(a.p, 0, junk), ActLoad(a.p, 2, junk))

\* computeConvStep leaving the accumulator in the extended format
computeConvStepNoNarrow(k, tfh, tfw, tc, acc, junk) ==
  LET weights_vec == WeightsVec(ChunkOf(k, tfh, tfw, tc), junk)
      reduced_vec_even_elements ==
        computeOuputVector(ActVec(ActAccess(k, 0, tfh, tfw, tc), junk), weights_vec)
  IN  IF ~k.skip_wi_1
      THEN LET reduced_vec_odd_elements ==
                 Q6_V_vror_VR(
                   computeOuputVector(ActVec(ActAccess(k, 1, tfh, tfw, tc), junk),
                                      weights_vec), -2)
               out_final == Q6_V_vor_VV(reduced_vec_even_elements, reduced_vec_odd_elements)
           IN  [acc |-> Q6_Vqf16_vadd_VhfVhf(out_final, acc), narrowed |-> 0]
      ELSE [acc |-> Q6_Vqf16_vadd_VhfVhf(reduced_vec_even_elements, acc), narrowed |-> 0]

\* the accumulator after the iteration, and how many times the iteration
\* narrowed it from the extended format to half precision
computeConvStep(k, tfh, tfw, tc, acc, junk) ==
  LET weights_vec == WeightsVec(ChunkOf(k, tfh, tfw, tc), junk)
      reduced_vec_even_elements ==
        computeOuputVector(ActVec(ActAccess(k, 0, tfh, tfw, tc), junk), weights_vec)
  IN  IF ~k.skip_wi_1
      THEN LET reduced_vec_odd_elements ==
                 Q6_V_vror_VR(
                   computeOuputVector(ActVec(ActAccess(k, 1, tfh, tfw, tc), junk),
                                      weights_vec), -2)
               out_final == Q6_V_vor_VV(reduced_vec_even_elements, reduced_vec_odd_elements)
               out_vec_qf16 == Q6_Vqf16_vadd_VhfVhf(out_final, acc)
           IN  [acc |-> Q6_Vhf_equals_Vqf16(out_vec_qf16), narrowed |-> 1]
      ELSE LET out_vec_qf16 == Q6_Vqf16_vadd_VhfVhf(reduced_vec_even_elements, acc)
           IN  [acc |-> Q6_Vhf_equals_Vqf16(out_vec_qf16), narrowed |-> 1]

\* the activation reads the iteration makes
StepAccesses(k, tfh, tfw, tc) ==
  {ActAccess(k, 0, tfh, tfw, tc)}
    \cup (IF ~k.skip_wi_1 THEN {ActAccess(k, 1, tfh, tfw, tc)} ELSE {})

OutPos(k) == <<k.out_act_y, k.out_act_x, k.out_c, k.h, k.wo>>

(***************************************************************************)
(* conv2d_packed_fp16: argument checks, scratch acquisition, the engine,   *)
(* conversion back to the flat output, release.                            *)
(***************************************************************************)
Acquire(r) == [ev |-> "acquire", res |-> r]
Release(r) == [ev |-> "release", res |-> r]
Did(what) == [ev |-> what, res |-> "-"]

\* a release order that forgets the blocked activation
ReleaseOrderLeak == <<"zero_block", "out_vtcm", "wgt_vtcm">>

\* the order in which the entry point releases its scratch resources
ReleaseOrder == <<"zero_block", "out_vtcm", "wgt_vtcm", "act_vtcm">>

Released == SelectSeq(trace, LAMBDA e : e.ev = "release")

\* batch checks on the activation and the output
CheckArgs ==
  /\ pc = "entry"
  /\ pc' = IF arg.act_batch = 1 /\ arg.out_batch = 1 THEN "prepare_act" ELSE "aborted"
  /\ UNCHANGED <<arg, held, trace, cr_out, out_flat, todo, calls, cur, fh, fw, c,
                 existing_out_vec, narrowings, contributions, acts, chunk, ptr>>

PrepareActivation ==
  /\ pc = "prepare_act"
  /\ held' = held \cup {"act_vtcm"}
  /\ trace' = Append(trace, Acquire("act_vtcm"))
  /\ pc' = "check_wgt"
  /\ UNCHANGED <<arg, cr_out, out_flat, todo, calls, cur, fh, fw, c,
                 existing_out_vec, narrowings, contributions, acts, chunk, ptr>>

CheckWeights ==
  /\ pc = "check_wgt"
  /\ pc' = IF /\ filt_height # 0 /\ filt_width # 0
              /\ filt_idepth # 0 /\ out_units # 0
           THEN "prepare_wgt" ELSE "aborted"
  /\ UNCHANGED <<arg, held, trace, cr_out, out_flat, todo, calls, cur, fh, fw, c,
                 existing_out_vec, narrowings, contributions, acts, chunk, ptr>>

PrepareWeights ==
  /\ pc = "prepare_wgt"
  /\ held' = held \cup {"wgt_vtcm"}
  /\ trace' = Append(trace, Acquire("wgt_vtcm"))
  /\ pc' = "prepare_out"
  /\ UNCHANGED <<arg, cr_out, out_flat, todo, calls, cur, fh, fw, c,
                 existing_out_vec, narrowings, contributions, acts, chunk, ptr>>

\* the blocked output is zero-filled, not copied
PrepareOutput ==
  /\ pc = "prepare_out"
  /\ held' = held \cup {"out_vtcm"}
  /\ trace' = Append(trace, Acquire("out_vtcm"))
  /\ cr_out' = [p \in OutPositions |-> Q6_V_vzero]
  /\ pc' = "alloc_zero"
  /\ UNCHANGED <<arg, out_flat, todo, calls, cur, fh, fw, c,
                 existing_out_vec, narrowings, contributions, acts, chunk, ptr>>

AllocZeroBlock ==
  /\ pc = "alloc_zero"
  /\ held' = held \cup {"zero_block"}
  /\ trace' = Append(trace, Acquire("zero_block"))
  /\ pc' = "engine_enter"
  /\ UNCHANGED <<arg, cr_out, out_flat, todo, calls, cur, fh, fw, c,
                 existing_out_vec, narrowings, contributions, acts, chunk, ptr>>

\* the pad checks of the engine
PadChecksPass == pad_top < 8 /\ pad_left < 4

\* conv_layer_fp16_hvx up to its loop nest
EngineEnter ==
  /\ pc = "engine_enter"
  /\ IF PadChecksPass
     THEN /\ pc' = "engine_loop"
          /\ todo' = TileLoopNest
     ELSE /\ pc' = "aborted"
          /\ todo' = todo
  /\ UNCHANGED <<arg, held, trace, cr_out, out_flat, calls, cur, fh, fw, c,
                 existing_out_vec, narrowings, contributions, acts, chunk, ptr>>

\* computeConv is entered: the accumulator is loaded from the output vector
KernelBegin ==
  /\ pc = "engine_loop"
  /\ todo # <<>>
  /\ cur' = Head(todo)
  /\ todo' = Tail(todo)
  /\ calls' = Append(calls, Head(todo))
  /\ existing_out_vec' = IF OutPos(Head(todo)) \in DOMAIN cr_out
                         THEN cr_out[OutPos(Head(todo))] ELSE Q6_V_vzero
  /\ fh' = 0 /\ fw' = 0 /\ c' = 0
  /\ narrowings' = 0 /\ contributions' = 0
  /\ acts' = {} /\ chunk' = NoCall
  /\ pc' = "kernel"
  /\ UNCHANGED <<arg, held, trace, cr_out, out_flat, ptr>>

\* one iteration of the (fh, fw, c) loops of computeConv
KernelStep ==
  /\ pc = "kernel"
  /\ fh < filt_height
  /\ LET res == computeConvStep(cur, fh, fw, c, existing_out_vec, arg.junk)
     IN  /\ existing_out_vec' = res.acc
         /\ narrowings' = narrowings + res.narrowed
  /\ contributions' = contributions + 1
  /\ acts' = StepAccesses(cur, fh, fw, c)
  /\ chunk' = ChunkOf(cur, fh, fw, c)
  /\ IF c + 2 < round_up(filt_idepth, 2)
     THEN c' = c + 2 /\ fw' = fw /\ fh' = fh
     ELSE /\ c' = 0
          /\ IF fw + 1 < filt_width
             THEN fw' = fw + 1 /\ fh' = fh
             ELSE fw' = 0 /\ fh' = fh + 1
  /\ UNCHANGED <<pc, arg, held, trace, cr_out, out_flat, todo, calls, cur, ptr>>

\* the loops are over: the accumulator is stored back
KernelEnd ==
  /\ pc = "kernel"
  /\ fh >= filt_height
  /\ cr_out' = IF OutPos(cur) \in DOMAIN cr_out
               THEN [cr_out EXCEPT ![OutPos(cur)] = existing_out_vec] ELSE cr_out
  /\ pc' = "engine_loop"
  /\ UNCHANGED <<arg, held, trace, out_flat, todo, calls, cur, fh, fw, c,
                 existing_out_vec, narrowings, contributions, acts, chunk, ptr>>

\* the loop nest is over: conv_layer_fp16_hvx returns
EngineReturn ==
  /\ pc = "engine_loop"
  /\ todo = <<>>
  /\ trace' = Append(trace, Did("engine_done"))
  /\ pc' = "deblockize"
  /\ UNCHANGED <<arg, held, cr_out, out_flat, todo, calls, cur, fh, fw, c,
                 existing_out_vec, narrowings, contributions, acts, chunk, ptr>>

Deblockize ==
  /\ pc = "deblockize"
  /\ out_flat' = deblockize_hwc_16b(cr_out)
  /\ trace' = Append(trace, Did("deblockize"))
  /\ pc' = "release"
  /\ UNCHANGED <<arg, held, cr_out, todo, calls, cur, fh, fw, c,
                 existing_out_vec, narrowings, contributions, acts, chunk, ptr>>

\* the next release, in the order of the code
ReleaseNext ==
  /\ pc = "release"
  /\ Len(Released) < Len(ReleaseOrder)
  /\ LET r == ReleaseOrder[Len(Released) + 1]
     IN  /\ held' = held \ {r}
         /\ trace' = Append(trace, Release(r))
  /\ UNCHANGED <<pc, arg, cr_out, out_flat, todo, calls, cur, fh, fw, c,
                 existing_out_vec, narrowings, contributions, acts, chunk, ptr>>

Return ==
  /\ pc = "release"
  /\ Len(Released) >= Len(ReleaseOrder)
  /\ pc' = "returned"
  /\ UNCHANGED <<arg, held, trace, cr_out, out_flat, todo, calls, cur, fh, fw, c,
                 existing_out_vec, narrowings, contributions, acts, chunk, ptr>>

Next ==
  \/ CheckArgs
  \/ PrepareActivation
  \/ CheckWeights
  \/ PrepareWeights
  \/ PrepareOutput
  \/ AllocZeroBlock
  \/ EngineEnter
  \/ KernelBegin
  \/ KernelStep
  \/ KernelEnd
  \/ EngineReturn
  \/ Deblockize
  \/ ReleaseNext
  \/ Return

(***************************************************************************)
(* Invocations.                                                            *)
(***************************************************************************)
\* the output size of a convolution without padding
OutDim(act, filt, stride) == (act - filt) \div stride + 1

Args(ah, aw, H, W, I, units, sh, sw, pt, pl) ==
  [act_batch |-> 1, out_batch |-> 1, act_height |-> ah, act_width |-> aw,
   filt_height |-> H, filt_width |-> W, filt_idepth |-> I, out_units |-> units,
   stride_h |-> sh, stride_w |-> sw, pad_top |-> pt, pad_left |-> pl,
   out_height |-> OutDim(ah, H, sh), out_width |-> OutDim(aw, W, sw), junk |-> 0]

\* the same invocation, with each value that memory outside the buffers may hold
WithJunk(as) == { [a EXCEPT !.junk = j] : a \in as, j \in {0, 1} }

\* invocations that break the contract of the entry point
BadArgs ==
  { [Args(2, 2, 1, 1, 2, 1, 1, 1, 0, 0) EXCEPT !.act_batch = 2],
    [Args(2, 2, 1, 1, 2, 1, 1, 1, 0, 0) EXCEPT !.out_batch = 2],
    [Args(2, 2, 1, 1, 2, 1, 1, 1, 0, 0) EXCEPT !.filt_width = 0],
    Args(2, 2, 1, 1, 2, 1, 1, 1, 8, 0),
    Args(2, 2, 1, 1, 2, 1, 1, 1, 0, 4) }

\* pad offsets around and beyond the accepted range, on a small convolution
PadArgs ==
  { Args(2, 3, 1, 1, 2, 1, 1, 1, pt, pl) : pt \in {-1, 0, 1, 7, 8, 9}, pl \in {-1, 0, 3, 4} }

\* output sizes across the tile boundaries, 1x1 filter over two input channels
LoopArgs ==
  { Args(ah, aw, 1, 1, 2, units, 1, 1, 0, 0) :
      ah \in 1..MaxOutHeight, aw \in 1..MaxOutWidth, units \in 1..MaxOutUnits }

InitWith(a) ==
  /\ pc = "entry"
  /\ arg = a
  /\ held = {}
  /\ trace = <<>>
  /\ cr_out = <<>>
  /\ out_flat = <<>>
  /\ todo = <<>>
  /\ calls = <<>>
  /\ cur = NoCall
  /\ fh = 0 /\ fw = 0 /\ c = 0
  /\ existing_out_vec = <<>>
  /\ narrowings = 0
  /\ contributions = 0
  /\ acts = {}
  /\ chunk = NoCall
  /\ ptr = NoCall

\* the concrete scenario: activation 1x8x4x32, weights 3x3x32x32, stride 1, no pad
ScenarioArgs == { Args(8, 4, 3, 3, 32, 1, 1, 1, 0, 0) }

\* small convolutions over filter shapes and strides: two output rows, three
\* or four output columns; either exact-fit without pad, or one spare
\* activation column with pad offsets 1 and 2
KernelArgs ==
  { Args(H + s, W + 2 * s + v[1], H, W, I, 1, s, s, v[2], v[3]) :
      H \in 1..MaxFiltHeight, W \in 1..MaxFiltWidth, I \in 1..MaxFiltDepth,
      s \in {1, 2}, v \in {<<0, 0, 0>>, <<1, 1, 2>>} }

Init == \E a \in LoopArgs \cup PadArgs \cup BadArgs : InitWith(a)

Spec == Init /\ [][Next]_vars

InitScenario == \E a \in ScenarioArgs \cup BadArgs : InitWith(a)

SpecScenario == InitScenario /\ [][Next]_vars

\* a 3 x 2 filter over activations of two row tiles and two column tiles, with
\* and without a spare activation row and column, no pad
TallArgs ==
  { Args(ah, aw, 3, 2, 2, 1, s, s, 0, 0) : ah \in {9, 10}, aw \in {7, 8}, s \in {1, 2} }

InitKernel == \E a \in WithJunk(KernelArgs \cup TallArgs) \cup BadArgs : InitWith(a)

SpecKernel == InitKernel /\ [][Next]_vars

(***************************************************************************)
(* getElementPtr on its own, over index tuples in and out of the tile's    *)
(* ranges.                                                                 *)
(***************************************************************************)
ElementPtrCall ==
  /\ pc = "element_ptr"
  /\ \E yi \in (0 - MaxIndex)..(7 + MaxIndex), xio \in (0 - MaxIndex)..(1 + MaxIndex),
        ci \in (0 - MaxIndex)..(31 + MaxIndex), xii \in (0 - MaxIndex)..(1 + MaxIndex) :
       ptr' = [path |-> "called", yi |-> yi, xio |-> xio, ci |-> ci, xii |-> xii,
               failed |-> FALSE,
               result |-> getElementPtr(0, 0, 0, yi, xio, ci, xii, "cr_act")]
  /\ pc' = "element_ptr_done"
  /\ UNCHANGED <<arg, held, trace, cr_out, out_flat, todo, calls, cur, fh, fw, c,
                 existing_out_vec, narrowings, contributions, acts, chunk>>

NextPtr == ElementPtrCall

InitPtr ==
  /\ pc = "element_ptr"
  /\ arg = Args(8, 4, 1, 1, 32, 1, 1, 1, 0, 0)
  /\ held = {}
  /\ trace = <<>>
  /\ cr_out = <<>>
  /\ out_flat = <<>>
  /\ todo = <<>>
  /\ calls = <<>>
  /\ cur = NoCall
  /\ fh = 0 /\ fw = 0 /\ c = 0
  /\ existing_out_vec = <<>>
  /\ narrowings = 0
  /\ contributions = 0
  /\ acts = {}
  /\ chunk = NoCall
  /\ ptr = NoCall

SpecPtr == InitPtr /\ [][NextPtr]_vars

(***************************************************************************)
(* Properties of the tile loop nest.                                       *)
(***************************************************************************)
EngineFinished == pc \in {"deblockize", "release", "returned"}

\* the output row and the first output column of position <<y, x, c, h, wo>>
RowOf(p) == p[1] * 8 + p[4]
FirstColOf(p) == p[2] * 4 + p[5] * 2

\* the position holds at least one valid output column
ValidPos(p) == RowOf(p) < out_height /\ FirstColOf(p) < out_width

CallsAt(p) == Cardinality({i \in DOMAIN calls : OutPos(calls[i]) = p})

\* C1: the loop nest invokes the kernel, and stores the output vector, exactly
\* once for every position that holds a valid output column and never for a
\* position whose row is >= out_height or whose first column is >= out_width;
\* an invocation is the single-sub-column (skip_wi_1) variant exactly when its
\* position holds only the last column of an odd-width remainder
C1_OncePerValidPosition ==
  /\ \A i \in DOMAIN calls :
       /\ OutPos(calls[i]) \in OutPositions
       /\ ValidPos(OutPos(calls[i]))
       /\ CallsAt(OutPos(calls[i])) = 1
       /\ calls[i].skip_wi_1 <=> (FirstColOf(OutPos(calls[i])) = out_width - 1)
  /\ EngineFinished =>
       \A p \in OutPositions :
         /\ CallsAt(p) = (IF ValidPos(p) THEN 1 ELSE 0)
         /\ (cr_out[p] # Q6_V_vzero) <=> ValidPos(p)

\* C1 witness: the engine has finished an output with full and remainder rows,
\* full column tiles and an odd width remainder, over two channel units
C1_Witness ==
  /\ EngineFinished
  /\ out_height = 9 /\ out_width = 7 /\ out_units = 2
  /\ \E i \in DOMAIN calls : calls[i].skip_wi_1
  /\ \E i \in DOMAIN calls : ~calls[i].skip_wi_1 /\ calls[i].path = "partial"
  /\ Len(calls) = 2 * 9 * 4

\* the full-tile set: every position of every tile, both sub-columns computed
FullTileSet ==
  { Call(p[1], p[2], p[3], p[4], p[5], FALSE, "full") : p \in OutPositions }

\* C9: when out_width is a multiple of 4 and out_height a multiple of 8, the
\* partial-width and partial-height paths make no kernel invocation, and the
\* invocations made are exactly the full-tile set
C9_NoBoundaryWhenExactMultiple ==
  (out_width % 4 = 0 /\ out_height % 8 = 0) =>
    /\ \A i \in DOMAIN calls : calls[i].path = "full" /\ calls[i].rows = "tile"
    /\ EngineFinished =>
         /\ {calls[i] : i \in DOMAIN calls} = FullTileSet
         /\ Len(calls) = Cardinality(FullTileSet)

\* C9 witness: the engine has finished an 8 x 8 output of two column tiles
C9_Witness ==
  /\ pc = "returned"
  /\ out_height = 8 /\ out_width = 8
  /\ Len(calls) = 2 * 8 * 2 * out_units

(***************************************************************************)
(* The concrete scenario.                                                  *)
(***************************************************************************)
InScenario == arg \in ScenarioArgs

\* C2: activation 1x8x4x32 of ones, weights 3x3x32x32 of ones, stride 1, no pad,
\* zero-initialised output 1x6x2x32: once the engine has finished, every valid
\* output element is 288, each kernel invocation having added 9 taps x 16
\* channel pairs of contributions
C2_ScenarioAll288 ==
  InScenario =>
    /\ (pc = "kernel" /\ fh >= filt_height) => contributions = 9 * 16
    /\ EngineFinished =>
         /\ DOMAIN deblockize_hwc_16b(cr_out) = (0..5) \X (0..1) \X (0..31)
         /\ \A e \in DOMAIN deblockize_hwc_16b(cr_out) :
              deblockize_hwc_16b(cr_out)[e] = 288
    /\ pc = "returned" => \A e \in DOMAIN out_flat : out_flat[e] = 288

\* C2 witness: the scenario has returned with a 6 x 2 x 32 flat output
C2_Witness ==
  /\ InScenario
  /\ pc = "returned"
  /\ Len(calls) = 6
  /\ DOMAIN out_flat = (0..5) \X (0..1) \X (0..31)
  /\ out_flat[<<5, 1, 31>>] = 288

(***************************************************************************)
(* Properties of the weight chunk lookup.                                  *)
(***************************************************************************)
\* C3: the chunk coordinates (fh/8, width group, c/32, out_c) of every weight
\* load lie inside the chunk table sized by chunkCount
C3_ChunkCoordinatesInTable ==
  chunk # NoCall =>
    /\ chunk.fch < numHeightGroups(filt_height)
    /\ chunk.fcw < numWidthGroups(filt_width)
    /\ chunk.cc < numChannelBlocks(filt_idepth)
    /\ chunk.out_c < out_units
    /\ ((((chunk.fch * numWidthGroups(filt_width) + chunk.fcw)
            * numChannelBlocks(filt_idepth) + chunk.cc) * out_units + chunk.out_c)
          < calculate_num_weight_chunks(filt_height, filt_width, filt_idepth, out_units))

\* C10: the tap-to-group mapping follows the partition into a first group of
\* width W mod 4 (4 when W is a multiple of 4) and full groups of 4: a tap is in
\* group 0 exactly when it is below the first group's width, its in-group
\* offset is below its group's width, and distinct taps get distinct pairs
C10_TapMappingFollowsPartition ==
  chunk # NoCall =>
    /\ (chunk.fcw = 0) <=> (chunk.fw < FirstGroupWidth(filt_width))
    /\ chunk.fx < GroupWidth(filt_width, chunk.fcw)
    /\ \A w1, w2 \in 0..(filt_width - 1) :
         w1 # w2 => <<Fcw(w1), Fx(w1)>> # <<Fcw(w2), Fx(w2)>>

(***************************************************************************)
(* Properties of the pad offsets.                                          *)
(***************************************************************************)
PadOutOfRange == ~(0 <= pad_top /\ pad_top < 8) \/ ~(0 <= pad_left /\ pad_left < 4)

OutputUntouched == \A p \in DOMAIN cr_out : cr_out[p] = Q6_V_vzero

\* C4: an invocation whose pad_top is outside 0..7 or whose pad_left is outside
\* 0..3 aborts, before any output element has been written
C4_OutOfRangePadAborts ==
  PadOutOfRange =>
    /\ pc \notin {"engine_loop", "kernel", "deblockize", "release", "returned"}
    /\ calls = <<>>
    /\ OutputUntouched
    /\ out_flat = <<>>

\* C5 as stated: a tap whose activation coordinate, with the pad offset applied,
\* falls above or left of the activation is read from the zero block
C5_PaddedTapsReadZeroBlock ==
  \A a \in acts :
    (a.row - pad_top < 0 \/ a.col - pad_left < 0) => a.buffer = "zero_block"

\* C5 amended: the engine applies no pad offset and substitutes no zero block:
\* every tap reads the activation buffer at row out_row * stride_h + fh and
\* column out_col * stride_w + fw, never above or left of the activation
C5_TapsReadActivationUnpadded ==
  \A a \in acts :
    /\ a.buffer = "cr_act" /\ a.p.tensor = "cr_act"
    /\ a.row = (cur.out_act_y * 8 + cur.h) * stride_h + a.fh
    /\ a.col = (cur.out_act_x * 4 + cur.wo * 2 + a.wi) * stride_w + a.fw
    /\ a.row >= 0 /\ a.col >= 0
    /\ a.p.y * 8 + a.yi = a.row
    /\ a.p.x * 4 + a.xio * 2 + a.xii = a.col

\* C5 witness: with pad_top = 1 and pad_left = 2 the tap (0, 0) of the first
\* output row and column has been read, from the activation buffer
C5_Witness ==
  /\ pad_top = 1 /\ pad_left = 2
  /\ \E a \in acts : a.row = 0 /\ a.col = 0 /\ a.buffer = "cr_act"

(***************************************************************************)
(* Properties of the accumulation.                                         *)
(***************************************************************************)
LoopsOver == fh >= filt_height

\* C6 as stated: within one kernel invocation the accumulator is narrowed to
\* half precision exactly once, after the last contribution, and not between
\* taps or channel pairs
C6_SingleFinalNarrowing ==
  pc = "kernel" => narrowings = (IF LoopsOver THEN 1 ELSE 0)

\* C6 amended: the accumulator is narrowed to half precision after every
\* (tap, channel-pair) contribution: once per contribution, filt_height *
\* filt_width * ceil(filt_idepth / 2) times in an invocation
C6_NarrowedAfterEveryContribution ==
  pc = "kernel" =>
    /\ narrowings = contributions
    /\ contributions = (fh * filt_width + fw) * (round_up(filt_idepth, 2) \div 2) + (c \div 2)
    /\ LoopsOver =>
         narrowings = filt_height * filt_width * ((filt_idepth + 1) \div 2)

\* C6 witness: an invocation over a 2 x 3 filter and 3 input channels has ended
\* its loops after 12 contributions and 12 narrowings
C6_Witness ==
  /\ pc = "kernel" /\ LoopsOver
  /\ filt_height = 2 /\ filt_width = 3 /\ filt_idepth = 3
  /\ contributions = 12 /\ narrowings = 12

(***************************************************************************)
(* Properties of the element address.                                      *)
(***************************************************************************)
IndexInRange(q) ==
  /\ q.yi \in 0..7 /\ q.xio \in 0..1 /\ q.ci \in 0..31 /\ q.xii \in 0..1

\* C7: getElementPtr fails, and returns no address, when row is outside 0..7,
\* width_outer outside 0..1, channel outside 0..31 or width_inner outside 0..1
C7_OutOfRangeIndexFails ==
  (ptr.path = "called" /\ ~IndexInRange(ptr)) => ptr.failed

(***************************************************************************)
(* Properties of the scratch resources.                                    *)
(***************************************************************************)
Scratch == {"act_vtcm", "wgt_vtcm", "out_vtcm", "zero_block"}

EventsOf(e) == {i \in DOMAIN trace : trace[i] = e}

Before(e1, e2) == \A j \in EventsOf(e2) : \E i \in EventsOf(e1) : i < j

\* C8: on a successful invocation each of the four scratch resources acquired
\* is released exactly once before return, the blocked output only after its
\* conversion to the flat output, and that conversion only after the engine
\* has finished
C8_ScratchReleasedOnceInOrder ==
  /\ \A r \in Scratch :
       /\ Cardinality(EventsOf(Release(r))) <= 1
       /\ Before(Acquire(r), Release(r))
  /\ Before(Did("deblockize"), Release("out_vtcm"))
  /\ Before(Did("engine_done"), Did("deblockize"))
  /\ pc = "returned" =>
       /\ held = {}
       /\ \A r \in Scratch :
            /\ Cardinality(EventsOf(Acquire(r))) = 1
            /\ Cardinality(EventsOf(Release(r))) = 1
       /\ Cardinality(EventsOf(Did("deblockize"))) = 1
       /\ Cardinality(EventsOf(Did("engine_done"))) = 1
       /\ out_flat # <<>>

\* C8 witness: an invocation has returned after four acquisitions, the engine,
\* the conversion and four releases
C8_Witness ==
  /\ pc = "returned"
  /\ held = {}
  /\ Len(trace) = 10
  /\ trace[10] = Release("act_vtcm")

(***************************************************************************)
(* Properties of the in-tile offset.                                       *)
(***************************************************************************)
\* the index tuples of one tile
TileIndices == [yi : 0..7, xio : 0..1, ci : 0..31, xii : 0..1]

OffsetOf(q) == getElementPtr(0, 0, 0, q.yi, q.xio, q.ci, q.xii, "cr_act").off

\* C11: the in-tile offset row*128 + width_outer*64 + channel*2 + width_inner
\* is a bijection from the index tuples (row 0..7, width_outer 0..1, channel
\* 0..31, width_inner 0..1) onto 0..1023: the offset of every in-range call
\* is inside the tile, no other tuple shares it, and every offset is taken
C11_OffsetIsBijection ==
  (ptr.path = "called" /\ IndexInRange(ptr)) =>
    /\ ptr.result.off = ptr.yi * 128 + ptr.xio * 64 + ptr.ci * 2 + ptr.xii
    /\ ptr.result.off \in 0..1023
    /\ \A q \in TileIndices :
         OffsetOf(q) = ptr.result.off =>
           (q.yi = ptr.yi /\ q.xio = ptr.xio /\ q.ci = ptr.ci /\ q.xii = ptr.xii)
    /\ {OffsetOf(q) : q \in TileIndices} = 0..1023

\* C11 witness: the last index tuple of the tile has been addressed, at the
\* last offset of the tile
C11_Witness ==
  /\ ptr.path = "called"
  /\ ptr.yi = 7 /\ ptr.xio = 1 /\ ptr.ci = 31 /\ ptr.xii = 1
  /\ ptr.result.off = 1023

(***************************************************************************)
(* Properties of the activation reads.                                     *)
(***************************************************************************)
\* the in-tile index tuple of offset off of a tile
IndicesOf(off) ==
  [yi |-> off \div 128, xio |-> (off % 128) \div 64, ci |-> (off % 64) \div 2,
   xii |-> off % 2]

\* C12: with out = floor((act - filt) / stride) + 1 in each spatial axis, every
\* activation read of every kernel invocation (sub-columns wi = 0 and wi = 1,
\* both channels of the pair the broadcast reads) targets logical row
\* out_row * stride_h + fh < act_height, logical column out_col * stride_w + fw
\* < act_width and a channel of the 32-channel block, with in-tile indices in
\* row 0..7, width_outer 0..1, channel 0..31, width_inner 0..1, inside the
\* blocked activation's tile grid
C12_ActivationReadsInBounds ==
  (/\ out_height = (arg.act_height - filt_height) \div stride_h + 1
   /\ out_width = (arg.act_width - filt_width) \div stride_w + 1) =>
    \A a \in acts :
      /\ a.row = (cur.out_act_y * 8 + cur.h) * stride_h + a.fh
      /\ a.col = (cur.out_act_x * 4 + cur.wo * 2 + a.wi) * stride_w + a.fw
      /\ 0 <= a.row /\ a.row < arg.act_height
      /\ 0 <= a.col /\ a.col < arg.act_width
      /\ IndexInRange(a)
      /\ 0 <= a.p.y /\ a.p.y < BlockedDim(arg.act_height, 8)
      /\ 0 <= a.p.x /\ a.p.x < BlockedDim(arg.act_width, 4)
      /\ 0 <= a.p.c /\ a.p.c < BlockedDim(filt_idepth, 32)
      /\ \A k \in {0, 2} :
           /\ a.p.off + k \in 0..1023
           /\ IndicesOf(a.p.off + k).yi = a.yi
           /\ IndicesOf(a.p.off + k).xio = a.xio
           /\ IndicesOf(a.p.off + k).xii = a.xii
           /\ IndicesOf(a.p.off + k).ci = a.ci + (k \div 2)
           /\ a.p.y * 8 + IndicesOf(a.p.off + k).yi = a.row
           /\ a.p.x * 4 + IndicesOf(a.p.off + k).xio * 2 + IndicesOf(a.p.off + k).xii = a.col

\* C12 witness: without pad and with stride 2, the sub-column wi = 1 of a
\* pair has read the last activation row and column of a 9 x 8 activation, in
\* the second row tile and second column tile
C12_Witness ==
  /\ pad_top = 0 /\ pad_left = 0
  /\ stride_h = 2 /\ stride_w = 2
  /\ arg.act_height = 9 /\ arg.act_width = 8
  /\ \E a \in acts :
       /\ a.wi = 1
       /\ a.row = 8 /\ a.col = 7
       /\ a.p.y = 1 /\ a.p.x = 1

====
